---- MODULE Spec2Model ----
(***************************************************************************)
(* Announcement endpoints of the High School Management System API         *)
(* (src/backend/routers/announcements.py) as a state machine.              *)
(*                                                                         *)
(* State: the announcements collection, the ObjectId generator, the server *)
(* clock, and the last request together with its response and the          *)
(* collection as it was before that request.  One action per endpoint.     *)
(*                                                                         *)
(* Strings that the code compares or parses character by character (dates) *)
(* are sequences of one-character strings.  A request or document field    *)
(* that may hold None holds the empty set for None and {v} for a value v.  *)
(* created_at, an ISO timestamp whose string order is its time order, is   *)
(* the reading of the clock.  Each handler runs as one step; requests that *)
(* FastAPI rejects before the handler is called are not modelled.          *)
(***************************************************************************)
EXTENDS Integers, Sequences, FiniteSets, TLC

VARIABLES store, next_id, clock, request, response, prev_store

vars == <<store, next_id, clock, request, response, prev_store>>

(***************************************************************************)
(* Bounds of the model.                                                    *)
(***************************************************************************)
\* how many announcements are ever inserted (ObjectIds ever generated)
MaxAnnouncements == 2
\* the same, where only the listing order is studied
MaxListed == 3

(***************************************************************************)
(* Python values.                                                          *)
(***************************************************************************)
None == {}
Some(v) == {v}
Val(o) == CHOOSE v \in o : TRUE

\* a body field that the client did not send (pydantic's "unset")
Unset == <<>>
\* a body field the client sent, with an Optional value (None = explicit null)
Sent(o) == <<o>>

(***************************************************************************)
(* Characters and string comparison (code point order).                    *)
(***************************************************************************)
Digits == {"0", "1", "2", "3", "4", "5", "6", "7", "8", "9"}

Code(c) ==
  CASE c = " " -> 32
    [] c = "-" -> 45
    [] c = "0" -> 48 [] c = "1" -> 49 [] c = "2" -> 50 [] c = "3" -> 51
    [] c = "4" -> 52 [] c = "5" -> 53 [] c = "6" -> 54 [] c = "7" -> 55
    [] c = "8" -> 56 [] c = "9" -> 57

Num(c) == Code(c) - Code("0")

\* s < t for two strings, as Python and the store order them
RECURSIVE StrLess(_, _)
StrLess(s, t) ==
  IF t = <<>> THEN FALSE
  ELSE IF s = <<>> THEN TRUE
  ELSE IF Code(Head(s)) # Code(Head(t)) THEN Code(Head(s)) < Code(Head(t))
  ELSE StrLess(Tail(s), Tail(t))

StrLeq(s, t) == s = t \/ StrLess(s, t)

(***************************************************************************)
(* datetime.strptime(value, "%Y-%m-%d"): TRUE when it returns, FALSE when  *)
(* it raises ValueError.  %Y is four digits; %m is 1[0-2]|0[1-9]|[1-9]; %d *)
(* is 3[0-1]|[1-2]\d|0[1-9]|[1-9]| [1-9]; the whole string must be used    *)
(* and the numbers must name a day of the proleptic Gregorian calendar.    *)
(***************************************************************************)
IsLeap(y) == (y % 4 = 0 /\ y % 100 # 0) \/ y % 400 = 0

DaysInMonth(y, m) ==
  IF m = 2 THEN (IF IsLeap(y) THEN 29 ELSE 28)
  ELSE IF m \in {4, 6, 9, 11} THEN 30 ELSE 31

MonthText(t) ==
  \/ Len(t) = 2 /\ t[1] = "1" /\ t[2] \in {"0", "1", "2"}
  \/ Len(t) = 2 /\ t[1] = "0" /\ t[2] \in Digits \ {"0"}
  \/ Len(t) = 1 /\ t[1] \in Digits \ {"0"}

DayText(t) ==
  \/ Len(t) = 2 /\ t[1] = "3" /\ t[2] \in {"0", "1"}
  \/ Len(t) = 2 /\ t[1] \in {"1", "2"} /\ t[2] \in Digits
  \/ Len(t) = 2 /\ t[1] = "0" /\ t[2] \in Digits \ {"0"}
  \/ Len(t) = 1 /\ t[1] \in Digits \ {"0"}
  \/ Len(t) = 2 /\ t[1] = " " /\ t[2] \in Digits \ {"0"}

\* the number a run of digits (with an optional leading blank) stands for
RECURSIVE ToInt(_)
ToInt(t) ==
  IF t = <<>> THEN 0
  ELSE IF t[Len(t)] = " " THEN 0
  ELSE 10 * ToInt(SubSeq(t, 1, Len(t) - 1)) + Num(t[Len(t)])

strptime(s) ==
  /\ Len(s) >= 8
  /\ \A i \in 1..4 : s[i] \in Digits
  /\ s[5] = "-"
  /\ \E ml \in {1, 2}, dl \in {1, 2} :
       /\ Len(s) = 6 + ml + dl
       /\ s[5 + ml + 1] = "-"
       /\ LET y == ToInt(SubSeq(s, 1, 4))
              mt == SubSeq(s, 6, 5 + ml)
              dt == SubSeq(s, 7 + ml, Len(s))
          IN  /\ MonthText(mt)
              /\ DayText(dt)
              /\ y >= 1
              /\ ToInt(dt) <= DaysInMonth(y, ToInt(mt))

(***************************************************************************)
(* The collaborators: the staff directory (read only) and the documents of *)
(* the announcements collection.                                           *)
(***************************************************************************)
(***************************************************************************)
(* Faulty variants of the definitions below, one per property: each is a   *)
(* slip the code could have made, and the property it is paired with must  *)
(* fail when the variant replaces the definition.                          *)
(***************************************************************************)
\* _id values of teachers_collection
Teachers == {"alice"}

\* announcement_id path values: a positive number n is the 24-hex-digit text
\* of the n-th generated ObjectId; INVALID_ID is a text ObjectId() rejects.
INVALID_ID == 0

\* variant: ObjectId() accepts any text
ObjectIdValid_AcceptsAll(announcement_id) == TRUE

ObjectIdValid(announcement_id) == announcement_id # INVALID_ID

\* field order of AnnouncementUpdate, which dict().items() follows
Fields == <<"title", "message", "priority", "start_date", "end_date", "is_active">>

FieldSet == {Fields[i] : i \in 1..Len(Fields)}

\* Python truthiness of an Optional[str] held as a character sequence
Truthy(o) == o # None /\ Val(o) # <<>>

\* Python truthiness of an Optional[str] held as a TLA+ string
TruthyName(o) == o # None /\ Val(o) # ""

\* variant: the handler checks that a username was given, not that it exists
find_teacher_PresenceOnly(teacher_username) ==
  teacher_username # None /\ Val(teacher_username) # ""

\* teachers_collection.find_one({"_id": teacher_username}) finds a teacher
find_teacher(teacher_username) ==
  teacher_username # None /\ Val(teacher_username) \in Teachers

Response(status, detail, id, items) ==
  [status |-> status, detail |-> detail, id |-> id, items |-> items]

HTTPException(status, detail) == Response(status, detail, INVALID_ID, <<>>)

\* a handler's outcome: the response and the collection it leaves
Outcome(resp, st) == [response |-> resp, store |-> st]

(***************************************************************************)
(* GET /announcements/active                                               *)
(***************************************************************************)
\* variant: "$gt" in place of "$gte"
QueryMatches_Strict(doc, current_date) ==
  /\ doc.is_active = Some(TRUE)
  /\ StrLess(current_date, Val(doc.end_date))

\* the query {"is_active": True, "end_date": {"$gte": current_date}}
QueryMatches(doc, current_date) ==
  /\ doc.is_active = Some(TRUE)
  /\ StrLeq(current_date, Val(doc.end_date))

\* the start_date check of the loop body
StartDateOk(doc, current_date) ==
  IF Truthy(doc.start_date)
    THEN StrLeq(Val(doc.start_date), current_date)
    ELSE TRUE

\* variant: an unrecognised priority sorts last
priority_order_UnknownLast(p) ==
  CASE p = Some("high") -> 0
    [] p = Some("medium") -> 1
    [] p = Some("low") -> 2
    [] OTHER -> 3

priority_order(p) ==
  CASE p = Some("high") -> 0
    [] p = Some("medium") -> 1
    [] p = Some("low") -> 2
    [] OTHER -> 1

\* the sort key, compared as Python compares tuples
KeyLess(a, b) ==
  \/ priority_order(a.priority) < priority_order(b.priority)
  \/ /\ priority_order(a.priority) = priority_order(b.priority)
     /\ a.created_at < b.created_at

\* list.sort(key=...): a stable sort
RECURSIVE InsertSorted(_, _)
InsertSorted(x, sorted) ==
  IF sorted = <<>> THEN <<x>>
  ELSE IF KeyLess(x, sorted[Len(sorted)]) 
         THEN Append(InsertSorted(x, SubSeq(sorted, 1, Len(sorted) - 1)),
                     sorted[Len(sorted)])
         ELSE Append(sorted, x)

RECURSIVE StableSort(_)
StableSort(seq) ==
  IF seq = <<>> THEN <<>>
  ELSE InsertSorted(seq[Len(seq)], StableSort(SubSeq(seq, 1, Len(seq) - 1)))

\* a stored document as the endpoints return it: "_id" rendered as text
Rendered(st, id) ==
  [_id |-> id,
   title |-> st[id].title, message |-> st[id].message,
   priority |-> st[id].priority, start_date |-> st[id].start_date,
   end_date |-> st[id].end_date, created_by |-> st[id].created_by,
   created_at |-> st[id].created_at, is_active |-> st[id].is_active]

\* the orders in which a cursor may yield the documents ids
CursorOrders(ids) ==
  {o \in [1..Cardinality(ids) -> ids] :
     \A i, j \in 1..Cardinality(ids) : i # j => o[i] # o[j]}

\* the documents announcements_collection.find(query) yields
FindActive(st, current_date) ==
  {id \in DOMAIN st : QueryMatches(st[id], current_date)}

\* the loop over find(query) for one cursor order, then the sort
ActiveList(st, current_date, cursor) ==
  LET found == SelectSeq(cursor, LAMBDA id : StartDateOk(st[id], current_date))
  IN  StableSort([i \in 1..Len(found) |-> Rendered(st, found[i])])

get_active_announcements_result(st, current_date, cursor) ==
  Outcome(Response(200, "", INVALID_ID, ActiveList(st, current_date, cursor)), st)

(***************************************************************************)
(* GET /announcements                                                      *)
(***************************************************************************)
\* find().sort("created_at", -1) yielded the documents in this order
SortedNewestFirst(st, cursor) ==
  \A i, j \in 1..Len(cursor) :
    i < j => st[cursor[i]].created_at >= st[cursor[j]].created_at

get_all_announcements_result(st, teacher_username, cursor) ==
  IF ~TruthyName(teacher_username)
    THEN Outcome(HTTPException(401, "Authentication required for this action"), st)
  ELSE IF ~find_teacher(teacher_username)
    THEN Outcome(HTTPException(401, "Invalid teacher credentials"), st)
  ELSE Outcome(Response(200, "", INVALID_ID,
                        [i \in 1..Len(cursor) |-> Rendered(st, cursor[i])]), st)

(***************************************************************************)
(* POST /announcements                                                     *)
(***************************************************************************)
\* the try block of create_announcement returns without ValueError
CreateDatesValid(data) ==
  /\ Truthy(data.start_date) => strptime(Val(data.start_date))
  /\ strptime(Val(data.end_date))

announcement_doc(data, teacher_username, now) ==
  [title |-> data.title,
   message |-> data.message,
   priority |-> data.priority,
   start_date |-> data.start_date,
   end_date |-> data.end_date,
   created_by |-> Val(teacher_username),
   created_at |-> now,
   is_active |-> data.is_active]

\* insert_one: the document is stored under a newly generated ObjectId
insert_one(st, inserted_id, doc) ==
  [id \in DOMAIN st \cup {inserted_id} |-> IF id = inserted_id THEN doc ELSE st[id]]

create_announcement_result(st, teacher_username, data, inserted_id, now) ==
  IF ~find_teacher(teacher_username)
    THEN Outcome(HTTPException(401, "Invalid teacher credentials"), st)
  ELSE IF ~CreateDatesValid(data)
    THEN Outcome(HTTPException(400, "Invalid date format. Use YYYY-MM-DD"), st)
  ELSE Outcome(Response(200, "Announcement created successfully", inserted_id, <<>>),
               insert_one(st, inserted_id, announcement_doc(data, teacher_username, now)))

(***************************************************************************)
(* PUT /announcements/{announcement_id}                                    *)
(***************************************************************************)
\* variant: the "is not None" test is missing
SuppliedFields_NullsKept(data) == {f \in FieldSet : data[f] # Unset}

\* the fields of dict(exclude_unset=True) whose value is not None
SuppliedFields(data) ==
  {f \in FieldSet : data[f] # Unset /\ data[f][1] # None}

\* the first supplied date field, in field order, that strptime rejects
InvalidDateFields(data) ==
  {f \in SuppliedFields(data) \cap {"start_date", "end_date"} :
     Truthy(data[f][1]) /\ ~strptime(Val(data[f][1]))}

FirstInvalidDateField(data) ==
  IF "start_date" \in InvalidDateFields(data) THEN "start_date" ELSE "end_date"

\* update_data, once the loop has run to its end
update_data(data) == [f \in SuppliedFields(data) |-> data[f][1]]

\* variant: the document is replaced, not "$set": fields not supplied are lost
SetFields_Replace(doc, upd) ==
  [f \in DOMAIN doc |->
     IF f \in DOMAIN upd THEN upd[f]
     ELSE IF f \in {"created_by", "created_at"} THEN doc[f] ELSE None]

\* the document after {"$set": upd}
SetFields(doc, upd) ==
  [f \in DOMAIN doc |-> IF f \in DOMAIN upd THEN upd[f] ELSE doc[f]]

\* variant: matched_count in place of modified_count
modified_count_Matched(doc, upd) == 1

\* update_one's modified_count: a $set that changes no value modifies nothing
modified_count(doc, upd) == IF SetFields(doc, upd) = doc THEN 0 ELSE 1

update_one(st, id, upd) ==
  [i \in DOMAIN st |-> IF i = id THEN SetFields(st[i], upd) ELSE st[i]]

update_announcement_result(st, teacher_username, announcement_id, data) ==
  IF ~find_teacher(teacher_username)
    THEN Outcome(HTTPException(401, "Invalid teacher credentials"), st)
  ELSE IF ~ObjectIdValid(announcement_id)
    THEN Outcome(HTTPException(400, "Invalid announcement ID"), st)
  ELSE IF announcement_id \notin DOMAIN st
    THEN Outcome(HTTPException(404, "Announcement not found"), st)
  ELSE IF InvalidDateFields(data) # {}
    THEN Outcome(HTTPException(400, "Invalid " \o FirstInvalidDateField(data)
                                      \o " format. Use YYYY-MM-DD"), st)
  ELSE IF SuppliedFields(data) = {}
    THEN Outcome(HTTPException(400, "No valid fields to update"), st)
  ELSE IF modified_count(st[announcement_id], update_data(data)) = 0
    THEN Outcome(HTTPException(500, "Failed to update announcement"), st)
  ELSE Outcome(Response(200, "Announcement updated successfully", INVALID_ID, <<>>),
               update_one(st, announcement_id, update_data(data)))

(***************************************************************************)
(* DELETE /announcements/{announcement_id}                                 *)
(***************************************************************************)
\* variant: the deleted_count test never fires
deleted_count_AlwaysOne(st, id) == 1

\* delete_one's deleted_count
deleted_count(st, id) == IF id \in DOMAIN st THEN 1 ELSE 0

delete_one(st, id) == [i \in DOMAIN st \ {id} |-> st[i]]

delete_announcement_result(st, teacher_username, announcement_id) ==
  IF ~find_teacher(teacher_username)
    THEN Outcome(HTTPException(401, "Invalid teacher credentials"), st)
  ELSE IF ~ObjectIdValid(announcement_id)
    THEN Outcome(HTTPException(400, "Invalid announcement ID"), st)
  ELSE IF deleted_count(st, announcement_id) = 0
    THEN Outcome(HTTPException(404, "Announcement not found"), st)
  ELSE Outcome(Response(200, "Announcement deleted successfully", INVALID_ID, <<>>),
               delete_one(st, announcement_id))

(***************************************************************************)
(* Request values.  A profile names the values the requests of one         *)
(* specification are drawn from.                                           *)
(***************************************************************************)
Jun10 == <<"2", "0", "2", "4", "-", "0", "6", "-", "1", "0">>
Jun12 == <<"2", "0", "2", "4", "-", "0", "6", "-", "1", "2">>
Jun15 == <<"2", "0", "2", "4", "-", "0", "6", "-", "1", "5">>
\* accepted by strptime although not zero-padded
Jun12Short == <<"2", "0", "2", "4", "-", "6", "-", "1", "2">>
Month13 == <<"2", "0", "2", "4", "-", "1", "3", "-", "0", "1">>
Feb29 == <<"2", "0", "2", "3", "-", "0", "2", "-", "2", "9">>
EmptyText == <<>>

Tri(sent) == {Unset} \cup {Sent(o) : o \in sent}

\* AnnouncementUpdate bodies: each field unset, or sent with one of the values
Bodies(t, m, p, s, e, a) ==
  [title : Tri(t), message : Tri(m), priority : Tri(p),
   start_date : Tri(s), end_date : Tri(e), is_active : Tri(a)]

\* AnnouncementCreate objects
Creates(t, m, p, s, e, a) ==
  [title : t, message : m, priority : p, start_date : s, end_date : e, is_active : a]

Profile(cap, users, ids, creates, bodies, todays, ticks) ==
  [cap |-> cap, users |-> users, ids |-> ids, creates |-> creates,
   bodies |-> bodies, todays |-> todays, ticks |-> ticks]

(***************************************************************************)
(* State machine.                                                          *)
(***************************************************************************)
Request(op, teacher_username, announcement_id, data, current_date) ==
  [op |-> op, teacher_username |-> teacher_username,
   announcement_id |-> announcement_id, data |-> data, current_date |-> current_date]

Init ==
  /\ store = <<>>
  /\ next_id = 1
  /\ clock = 1
  /\ request = Request("none", None, INVALID_ID, <<>>, <<>>)
  /\ response = Response(200, "", INVALID_ID, <<>>)
  /\ prev_store = <<>>

Handled(req, out) ==
  /\ request' = req
  /\ response' = out.response
  /\ store' = out.store
  /\ prev_store' = store

get_active_announcements(P) ==
  \E current_date \in P.todays :
    \E cursor \in CursorOrders(FindActive(store, current_date)) :
      /\ Handled(Request("list_active", None, INVALID_ID, <<>>, current_date),
                 get_active_announcements_result(store, current_date, cursor))
      /\ UNCHANGED <<next_id, clock>>

get_all_announcements(P) ==
  \E teacher_username \in P.users \cup {None, Some("")} :
    \E cursor \in {c \in CursorOrders(DOMAIN store) : SortedNewestFirst(store, c)} :
      /\ Handled(Request("list_all", teacher_username, INVALID_ID, <<>>, <<>>),
                 get_all_announcements_result(store, teacher_username, cursor))
      /\ UNCHANGED <<next_id, clock>>

create_announcement(P) ==
  /\ next_id <= P.cap
  /\ \E teacher_username \in P.users, data \in P.creates, tick \in P.ticks :
       LET out == create_announcement_result(store, teacher_username, data,
                                             next_id, clock)
           inserted == out.response.status = 200
       IN  /\ Handled(Request("create", teacher_username, INVALID_ID, data, <<>>), out)
           /\ next_id' = IF inserted THEN next_id + 1 ELSE next_id
           /\ clock' = IF inserted THEN clock + tick ELSE clock

update_announcement(P) ==
  \E teacher_username \in P.users, announcement_id \in P.ids, data \in P.bodies :
    /\ Handled(Request("update", teacher_username, announcement_id, data, <<>>),
               update_announcement_result(store, teacher_username, announcement_id, data))
    /\ UNCHANGED <<next_id, clock>>

delete_announcement(P) ==
  \E teacher_username \in P.users, announcement_id \in P.ids :
    /\ Handled(Request("delete", teacher_username, announcement_id, <<>>, <<>>),
               delete_announcement_result(store, teacher_username, announcement_id))
    /\ UNCHANGED <<next_id, clock>>

Alice == {Some("alice")}
Users == {Some("alice"), Some("mallory")}

\* access control, target identifiers, deletion
ProfileAccess ==
  Profile(MaxAnnouncements, Users, 0..(MaxAnnouncements + 1),
          Creates({Some("T1")}, {Some("M1")}, {Some("medium")},
                  {None}, {Some(Jun15), Some(Month13)}, {Some(TRUE)}),
          Bodies({}, {None, Some("M2")}, {}, {}, {Some(Jun10), Some(Month13)}, {}),
          {Jun10}, {0, 1})

\* date validation on create and update
ProfileDates ==
  Profile(MaxAnnouncements, Alice, 1..MaxAnnouncements,
          Creates({Some("T1")}, {Some("M1")}, {Some("medium")},
                  {None, Some(EmptyText), Some(Jun10), Some(Feb29)},
                  {Some(Jun15), Some(Month13), Some(EmptyText)},
                  {Some(TRUE)}),
          Bodies({}, {}, {}, {Some(EmptyText), Some(Month13)},
                 {None, Some(EmptyText), Some(Feb29)}, {}),
          {Jun10}, {1})

\* partial update
ProfileUpdate ==
  Profile(MaxAnnouncements, Alice, 1..MaxAnnouncements,
          Creates({Some("T1")}, {Some("M1")}, {Some("medium")},
                  {None}, {Some(Jun15)}, {Some(TRUE)}),
          Bodies({None, Some("T2")}, {}, {}, {}, {None, Some(Jun10)},
                 {None, Some(FALSE)}),
          {Jun10}, {1})

\* the active window
ProfileActive ==
  Profile(MaxAnnouncements, Alice, 1..MaxAnnouncements,
          Creates({Some("T1")}, {Some("M1")}, {Some("medium")},
                  {None, Some(EmptyText), Some(Jun12)}, {Some(Jun12)},
                  {None, Some(TRUE), Some(FALSE)})
            \cup Creates({Some("T1")}, {Some("M1")}, {Some("medium")},
                         {None}, {Some(Jun12Short)}, {Some(TRUE)}),
          Bodies({}, {}, {}, {}, {Some(EmptyText)}, {})
            \cup Bodies({}, {}, {}, {}, {}, {Some(FALSE)}),
          {Jun10, Jun12, Jun15}, {1})

\* the listing order
ProfileOrder ==
  Profile(MaxListed, Alice, {1},
          Creates({Some("T1")}, {Some("M1")},
                  {None, Some("high"), Some("medium"), Some("low"), Some("urgent")},
                  {None}, {Some(Jun15)}, {Some(TRUE)}),
          Bodies({}, {}, {Some("high")}, {}, {}, {}),
          {Jun10}, {1})

Next(P) ==
  \/ get_active_announcements(P)
  \/ get_all_announcements(P)
  \/ create_announcement(P)
  \/ update_announcement(P)
  \/ delete_announcement(P)

NextAccess == Next(ProfileAccess)
NextDates == Next(ProfileDates)
NextUpdate == Next(ProfileUpdate)
NextActive == Next(ProfileActive)
NextOrder == Next(ProfileOrder)

Spec == Init /\ [][NextAccess]_vars
SpecDates == Init /\ [][NextDates]_vars
SpecUpdate == Init /\ [][NextUpdate]_vars
SpecActive == Init /\ [][NextActive]_vars
SpecOrder == Init /\ [][NextOrder]_vars

(***************************************************************************)
(* Vocabulary of the properties.                                           *)
(***************************************************************************)
KnownStaff == request.teacher_username # None
              /\ Val(request.teacher_username) \in Teachers

Gated == request.op \in {"list_all", "create", "update", "delete"}

Listing == request.op \in {"list_active", "list_all"}

\* the identifiers the response lists
ListedIds == {response.items[i]._id : i \in 1..Len(response.items)}

\* the body fields sent with a value other than null
NonNull(data) == {f \in FieldSet : data[f] # Unset /\ data[f] # Sent(None)}

(***************************************************************************)
(* C1.  The active listing returns a record exactly when its is_active is  *)
(* true, its end_date is >= today and its start_date is absent or <=       *)
(* today, dates compared as strings; each such record is returned once,    *)
(* with the fields it has in the store.                                    *)
(***************************************************************************)
C1_InWindow(doc, today) ==
  /\ doc.is_active = Some(TRUE)
  /\ ~StrLess(Val(doc.end_date), today)
  /\ (doc.start_date = None \/ ~StrLess(today, Val(doc.start_date)))

C1_ActiveListing ==
  request.op = "list_active" =>
    /\ response.status = 200
    /\ \A id \in DOMAIN store :
         id \in ListedIds <=> C1_InWindow(store[id], request.current_date)
    /\ \A i \in 1..Len(response.items) :
         /\ response.items[i]._id \in DOMAIN store
         /\ response.items[i] = Rendered(store, response.items[i]._id)
         /\ \A j \in 1..Len(response.items) :
              response.items[i]._id = response.items[j]._id => i = j

\* one record listed, another kept out because it has not started yet
C1_Witness ==
  /\ request.op = "list_active"
  /\ Len(response.items) = 1
  /\ \E id \in DOMAIN store :
       /\ store[id].is_active = Some(TRUE)
       /\ store[id].start_date # None
       /\ StrLess(request.current_date, Val(store[id].start_date))
       /\ StrLeq(request.current_date, Val(store[id].end_date))

(***************************************************************************)
(* C2.  In the active listing every high record precedes every medium one  *)
(* and every medium one every low one, a missing or unrecognised priority  *)
(* counting as medium; records of equal rank are in ascending created_at   *)
(* order.                                                                  *)
(***************************************************************************)
C2_Rank(p) ==
  IF p = Some("high") THEN 0 ELSE IF p = Some("low") THEN 2 ELSE 1

C2_ListingOrder ==
  request.op = "list_active" =>
    \A i, j \in 1..Len(response.items) :
      i < j =>
        LET a == response.items[i]
            b == response.items[j]
        IN  /\ C2_Rank(a.priority) <= C2_Rank(b.priority)
            /\ C2_Rank(a.priority) = C2_Rank(b.priority)
                 => a.created_at <= b.created_at

\* high, then two of medium rank (one unrecognised) created at different times
C2_Witness ==
  /\ request.op = "list_active"
  /\ Len(response.items) = 3
  /\ response.items[1].priority = Some("high")
  /\ response.items[2].priority = Some("urgent")
  /\ response.items[3].priority \in {None, Some("medium")}
  /\ response.items[2].created_at < response.items[3].created_at
  /\ response.items[1]._id > response.items[3]._id

(***************************************************************************)
(* C3.  Every stored record has an end_date that is present and a valid    *)
(* calendar date in the YYYY-MM-DD format, and a start_date that is absent *)
(* or such a date.  A text counts as such a date here whenever the         *)
(* endpoint's own parser accepts it, the weakest reading of the claim.     *)
(***************************************************************************)
C3_StoredDatesValid ==
  \A id \in DOMAIN store :
    /\ store[id].end_date # None
    /\ strptime(Val(store[id].end_date))
    /\ store[id].start_date # None => strptime(Val(store[id].start_date))

(***************************************************************************)
(* C4.  A successful update sets exactly the supplied non-null fields of   *)
(* the target to the supplied values and changes nothing else; no request  *)
(* changes the created_by or created_at of a record that stays, and the    *)
(* two listings leave the store as it was.                                 *)
(***************************************************************************)
C4_Frame ==
  /\ (request.op = "update" /\ response.status = 200) =>
       LET t == request.announcement_id
       IN  /\ DOMAIN store = DOMAIN prev_store
           /\ t \in DOMAIN store
           /\ \A id \in DOMAIN store \ {t} : store[id] = prev_store[id]
           /\ DOMAIN store[t] = DOMAIN prev_store[t]
           /\ \A f \in FieldSet :
                store[t][f] = IF f \in NonNull(request.data)
                                THEN request.data[f][1]
                                ELSE prev_store[t][f]
  /\ \A id \in DOMAIN store \cap DOMAIN prev_store :
       /\ store[id].created_by = prev_store[id].created_by
       /\ store[id].created_at = prev_store[id].created_at
  /\ Listing => store = prev_store

\* one field changed, one sent as null, the rest unset, a second record present
C4_Witness ==
  /\ request.op = "update" /\ response.status = 200
  /\ Cardinality(DOMAIN store) = 2
  /\ Cardinality(NonNull(request.data)) = 1
  /\ \E f \in FieldSet : request.data[f] = Sent(None)
  /\ \E f \in FieldSet : request.data[f] = Unset
  /\ store # prev_store

(***************************************************************************)
(* C5.  On list-all, create, update and delete a staff identifier that is  *)
(* not in the staff directory gets 401 and the store is unchanged,         *)
(* whatever else is wrong with the request; an identifier that is in the   *)
(* directory never gets 401.                                               *)
(***************************************************************************)
C5_StaffGateFirst ==
  Gated =>
    /\ ~KnownStaff => response.status = 401 /\ store = prev_store
    /\ KnownStaff => response.status # 401

\* unknown staff, malformed target and malformed date in one request
C5_Witness ==
  /\ request.op = "update"
  /\ request.teacher_username = Some("mallory")
  /\ request.announcement_id = INVALID_ID
  /\ request.data.end_date = Sent(Some(Month13))
  /\ response.status = 401
  /\ store # <<>>

(***************************************************************************)
(* C6.  A create by known staff whose end_date does not parse, or whose    *)
(* start_date is present and does not parse, gets 400 and stores nothing;  *)
(* with dates that parse it adds exactly one record and returns its        *)
(* identifier.                                                             *)
(***************************************************************************)
C6_CreateValidation ==
  (request.op = "create" /\ KnownStaff) =>
    LET data == request.data
        bad == \/ ~strptime(Val(data.end_date))
               \/ data.start_date # None /\ ~strptime(Val(data.start_date))
    IN  IF bad
          THEN response.status = 400 /\ store = prev_store
          ELSE /\ response.status = 200
               /\ response.id \notin DOMAIN prev_store
               /\ DOMAIN store = DOMAIN prev_store \cup {response.id}
               /\ \A id \in DOMAIN prev_store : store[id] = prev_store[id]

(***************************************************************************)
(* C7.  An update by known staff of an existing record whose body sets no  *)
(* field, or only null fields, gets 400 and changes nothing.               *)
(***************************************************************************)
C7_EmptyUpdate ==
  ( /\ request.op = "update" /\ KnownStaff
    /\ request.announcement_id \in DOMAIN prev_store
    /\ NonNull(request.data) = {} ) =>
      response.status = 400 /\ store = prev_store

\* a body whose only sent field is null
C7_Witness ==
  /\ request.op = "update" /\ KnownStaff
  /\ request.announcement_id \in DOMAIN prev_store
  /\ NonNull(request.data) = {}
  /\ \E f \in FieldSet : request.data[f] = Sent(None)
  /\ response.status = 400

(***************************************************************************)
(* C8.  An update or delete by known staff of a well-formed identifier     *)
(* that matches no record gets 404 and changes nothing; an identifier that *)
(* was deleted never comes back into the store, and the listings return    *)
(* only stored records.                                                    *)
(***************************************************************************)
C8_NotFound ==
  /\ ( /\ request.op \in {"update", "delete"} /\ KnownStaff
       /\ request.announcement_id # INVALID_ID
       /\ request.announcement_id \notin DOMAIN prev_store ) =>
         response.status = 404 /\ store = prev_store
  /\ (Listing /\ response.status = 200) => ListedIds \subseteq DOMAIN store
  /\ DOMAIN store \subseteq 1..(next_id - 1)

\* generated and no longer stored: deleted
Deleted(id) == id \in 1..(next_id - 1) /\ id \notin DOMAIN store

C8_StaysDeleted ==
  \A id \in 1..(next_id - 1) : Deleted(id) => (id \notin DOMAIN store')

C8_GoneForGood == []C8_NotFound /\ [][C8_StaysDeleted]_vars

\* a second delete of an identifier that was deleted before
C8_Witness ==
  /\ request.op = "delete" /\ KnownStaff
  /\ request.announcement_id \in 1..(next_id - 1)
  /\ request.announcement_id \notin DOMAIN prev_store
  /\ response.status = 404

(***************************************************************************)
(* C9.  As claimed: a syntactically invalid target identifier is reported  *)
(* exactly as a well-formed identifier that matches no record.             *)
(***************************************************************************)
C9_InvalidTarget ==
  /\ request.op \in {"update", "delete"} /\ KnownStaff
  /\ request.announcement_id = INVALID_ID

\* next_id has not been generated yet: well-formed, matching no record
C9_NotFoundResponse ==
  IF request.op = "update"
    THEN update_announcement_result(prev_store, request.teacher_username,
                                    next_id, request.data).response
    ELSE delete_announcement_result(prev_store, request.teacher_username,
                                    next_id).response

C9_SameAsNotFound ==
  C9_InvalidTarget => response = C9_NotFoundResponse /\ store = prev_store

(***************************************************************************)
(* C9, amended.  A syntactically invalid target identifier gets 400        *)
(* "Invalid announcement ID", a condition of its own, not the 404 of a     *)
(* well-formed identifier that matches no record; the store is unchanged.  *)
(***************************************************************************)
C9_InvalidIdIs400 ==
  C9_InvalidTarget =>
    /\ response.status = 400
    /\ response.detail = "Invalid announcement ID"
    /\ response # C9_NotFoundResponse
    /\ store = prev_store

C9_Witness ==
  /\ C9_InvalidTarget
  /\ request.op = "delete"
  /\ store # <<>>
  /\ response.status = 400

(***************************************************************************)
(* C10.  An update by known staff of an existing record, with at least one *)
(* non-null field and dates that parse, gets 500 and changes nothing when  *)
(* every supplied value equals the current one, and succeeds when some     *)
(* supplied value differs.                                                 *)
(***************************************************************************)
C10_NoChangeIs500 ==
  LET data == request.data
      t == request.announcement_id
  IN  ( /\ request.op = "update" /\ KnownStaff
        /\ t \in DOMAIN prev_store
        /\ NonNull(data) # {}
        /\ \A f \in NonNull(data) \cap {"start_date", "end_date"} :
             strptime(Val(data[f][1])) ) =>
          IF \A f \in NonNull(data) : data[f][1] = prev_store[t][f]
            THEN response.status = 500 /\ store = prev_store
            ELSE response.status = 200

\* a date and a flag sent again with the values the record already has
C10_Witness ==
  /\ request.op = "update" /\ KnownStaff
  /\ request.announcement_id \in DOMAIN prev_store
  /\ NonNull(request.data) = {"end_date", "is_active"}
  /\ response.status = 500

====
